---- MODULE Spec2Model ----
(***************************************************************************)
(* Model of netapp_ontap/models/oracle_on_san_new_igroups.py:              *)
(* OracleOnSanNewIgroupsSchema (four declared marshmallow fields and the   *)
(* two field-name lists) and the OracleOnSanNewIgroups resource bound to   *)
(* it.  A state is the last call made on the schema: the operation, its    *)
(* argument and what it returned.                                          *)
(***************************************************************************)
EXTENDS Naturals, Integers, Sequences, FiniteSets, TLC

VARIABLES
    op,        \* the last operation called on the schema
    arg,       \* its argument: a record (serialize) or a wire object (deserialize)
    kind,      \* what it returned: "record", "wire", "names", "ValidationError"
    ret,       \* the value returned, or the offending keys of the ValidationError
    prev       \* {r} when arg is the wire object serialize returned for record r

vars == <<op, arg, kind, ret, prev>>

-----------------------------------------------------------------------------
(* Bounds of the input space *)

MaxInitiators == 2

-----------------------------------------------------------------------------
(* Values.  A value is a pair <<tag, payload>>; an object (a record, or a   *)
(* wire object) is a function from the keys that are present to values, so  *)
(* an absent field is a key outside the DOMAIN.                             *)

Str(s) == <<"str", s>>
Num(n) == <<"int", n>>
Lst(q) == <<"list", q>>
Absent == <<"absent">>
Tag(v) == v[1]
Val(v) == v[2]

EmptyObj == [k \in {} |-> Absent]

SeqsUpTo(S, n) == UNION {[1..k -> S] : k \in 0..n}

Strip(full) == [k \in {x \in DOMAIN full : full[x] # Absent} |-> full[k]]

-----------------------------------------------------------------------------
(* The schema *)

\* The valid choices the os_type docstring lists
OsTypeChoices ==
    {"aix", "hpux", "hyper_v", "linux", "solaris", "vmware", "windows", "xen"}

\* The valid choices the protocol docstring lists
ProtocolChoices == {"fcp", "iscsi", "mixed"}

\* A declared field: its type, the type of its elements (List only), its wire
\* key, and its validators (each the set of strings it lets through).  None of
\* the four declarations passes validate=, so each has no validator.
\* Mutation: initiators declared as fields.Str
initiators_as_str ==
    [type |-> "Str", inner |-> "", data_key |-> "initiators", validate |-> {}]

initiators ==
    [type |-> "List", inner |-> "Str", data_key |-> "initiators", validate |-> {}]

\* Mutation: name declared with another wire key
name_rekeyed == [type |-> "Str", inner |-> "", data_key |-> "igroup_name", validate |-> {}]

name == [type |-> "Str", inner |-> "", data_key |-> "name", validate |-> {}]

os_type == [type |-> "Str", inner |-> "", data_key |-> "os_type", validate |-> {}]

protocol == [type |-> "Str", inner |-> "", data_key |-> "protocol", validate |-> {}]

\* Mutation: the protocol declaration is missing
declared_fields_without_protocol ==
    [initiators |-> initiators, name |-> name, os_type |-> os_type]

declared_fields ==
    [initiators |-> initiators, name |-> name,
     os_type |-> os_type, protocol |-> protocol]

\* Mutation: a field is missing from the list
patchable_fields_short == <<"initiators", "name", "os_type">>

patchable_fields == <<"initiators", "name", "os_type", "protocol">>

\* Mutation: the list names a field the schema does not declare
postable_fields_drifted == <<"initiators", "name", "os_type", "protocol", "uuid">>

postable_fields == <<"initiators", "name", "os_type", "protocol">>

\* What the schema does with a wire key no field declares
unknown == "exclude"

-----------------------------------------------------------------------------
(* Field (de)serialization *)

\* fields.Str on load: a string passes unchanged, anything else is invalid
StrDeserializeOk(v) == Tag(v) = "str"

\* fields.List(fields.Str) on load: a collection whose elements all load
ListDeserializeOk(v) ==
    /\ Tag(v) = "list"
    /\ \A i \in DOMAIN Val(v) : StrDeserializeOk(Val(v)[i])

\* Every validator of the field lets the value through
ValidateOk(f, v) == \A choices \in f.validate : Tag(v) = "str" /\ Val(v) \in choices

FieldDeserializeOk(f, v) ==
    /\ IF f.type = "List" THEN ListDeserializeOk(v) ELSE StrDeserializeOk(v)
    /\ ValidateOk(f, v)

\* fields.Str on dump: str(value)
StrSerialize(v) == IF Tag(v) = "str" THEN v ELSE Str(ToString(Val(v)))

\* Mutation: the elements come out in reverse order
ListSerialize_reversed(v) ==
    Lst([i \in DOMAIN Val(v) |-> StrSerialize(Val(v)[Len(Val(v)) + 1 - i])])

\* fields.List(fields.Str) on dump: each element dumped, in order
ListSerialize(v) == Lst([i \in DOMAIN Val(v) |-> StrSerialize(Val(v)[i])])

FieldSerialize(f, v) == IF f.type = "List" THEN ListSerialize(v) ELSE StrSerialize(v)

-----------------------------------------------------------------------------
(* Schema load and dump *)

DataKeys == {declared_fields[a].data_key : a \in DOMAIN declared_fields}

AttrOf(k) == CHOOSE a \in DOMAIN declared_fields : declared_fields[a].data_key = k

\* The keys of wire object w that make load fail
LoadErrors(w) ==
    {k \in DOMAIN w \cap DataKeys : ~FieldDeserializeOk(declared_fields[AttrOf(k)], w[k])}
    \cup (IF unknown = "raise" THEN DOMAIN w \ DataKeys ELSE {})

\* The record load builds when no key fails
LoadValue(w) ==
    LET attrs == {a \in DOMAIN declared_fields : declared_fields[a].data_key \in DOMAIN w}
        extra == IF unknown = "include" THEN DOMAIN w \ DataKeys ELSE {}
    IN  [a \in attrs \cup extra |->
            IF a \in attrs THEN w[declared_fields[a].data_key] ELSE w[a]]

\* The fields of record r that make dump fail: those a declared validator
\* turns down (serialize is specified to check the enumerated fields too)
DumpErrors(r) ==
    {declared_fields[a].data_key : a \in
        {x \in DOMAIN r \cap DOMAIN declared_fields : ~ValidateOk(declared_fields[x], r[x])}}

\* The wire object dump builds: one entry per declared field present on r
DumpValue(r) ==
    LET attrs == DOMAIN r \cap DOMAIN declared_fields
    IN  [k \in {declared_fields[a].data_key : a \in attrs} |->
            FieldSerialize(declared_fields[AttrOf(k)], r[AttrOf(k)])]

-----------------------------------------------------------------------------
(* The inputs callers supply *)

InitiatorNames == {"iqn.a", "iqn.b"}

\* Values a well-typed record holds, per field
RecordFull ==
    [initiators : {Lst(q) : q \in SeqsUpTo({Str(s) : s \in InitiatorNames}, MaxInitiators)}
                    \cup {Absent},
     name       : {Str("grp1"), Absent},
     os_type    : {Str("linux"), Str("Linux"), Str("macos"), Absent},
     protocol   : {Str("iscsi"), Str("nfs"), Absent}]

Records == {Strip(f) : f \in RecordFull}

\* Values a JSON body can carry, per key: the well-typed ones, a number in
\* place of a string, a scalar in place of the list, and a key no field declares
WireFull ==
    [initiators : {Lst(q) : q \in SeqsUpTo({Str("iqn.a"), Num(7)}, MaxInitiators)}
                    \cup {Str("iqn.a"), Absent},
     name       : {Str("grp1"), Num(7), Absent},
     os_type    : {Str("linux"), Str("Linux"), Str("macos"), Absent},
     protocol   : {Str("iscsi"), Str("nfs"), Absent},
     unexpected_field : {Str("x"), Absent}]

WireObjects == {Strip(f) : f \in WireFull}

-----------------------------------------------------------------------------
(* Operations *)

Return(o, a, k, r) ==
    /\ op' = o
    /\ arg' = a
    /\ kind' = k
    /\ ret' = r

\* OracleOnSanNewIgroups.to_dict -> schema.dump(record)
Serialize(r) ==
    /\ prev' = {}
    /\ IF DumpErrors(r) # {}
       THEN Return("serialize", r, "ValidationError", DumpErrors(r))
       ELSE Return("serialize", r, "wire", DumpValue(r))

\* The body the server echoes for the request just serialized
Echo == IF op = "serialize" /\ kind = "wire" THEN {ret} ELSE {}

\* OracleOnSanNewIgroups.from_dict -> schema.load(wire)
Deserialize(w) ==
    /\ prev' = IF op = "serialize" /\ kind = "wire" /\ ret = w THEN {arg} ELSE {}
    /\ IF LoadErrors(w) # {}
       THEN Return("deserialize", w, "ValidationError", LoadErrors(w))
       ELSE Return("deserialize", w, "record", LoadValue(w))

PatchableFields ==
    /\ prev' = {}
    /\ Return("patchable_fields", EmptyObj, "names", patchable_fields)

PostableFields ==
    /\ prev' = {}
    /\ Return("postable_fields", EmptyObj, "names", postable_fields)

-----------------------------------------------------------------------------
(* Specifications *)

InitCall ==
    /\ op = "init"
    /\ arg = EmptyObj
    /\ kind = "none"
    /\ ret = EmptyObj
    /\ prev = {}

Init == InitCall

Next ==
    \/ \E r \in Records : Serialize(r)
    \/ \E w \in WireObjects \cup Echo : Deserialize(w)
    \/ PatchableFields
    \/ PostableFields

Spec == Init /\ [][Next]_vars

-----------------------------------------------------------------------------
(* Vocabulary of the properties *)

FieldNames == {"initiators", "name", "os_type", "protocol"}

Called(o) == op = o

\* Key k of object o holds a value outside the enumerated choices
Outside(o, k, choices) ==
    k \in DOMAIN o /\ ~(Tag(o[k]) = "str" /\ Val(o[k]) \in choices)

BadEnum(o) == Outside(o, "os_type", OsTypeChoices) \/ Outside(o, "protocol", ProtocolChoices)

\* Key k of object o holds a value that is not of the field's declared type
Mistyped(o, k) ==
    /\ k \in DOMAIN o
    /\ IF k = "initiators"
       THEN Tag(o[k]) # "list" \/ \E i \in DOMAIN Val(o[k]) : Tag(Val(o[k])[i]) # "str"
       ELSE Tag(o[k]) # "str"

MistypedKeys(o) == {k \in FieldNames : Mistyped(o, k)}

InvalidKeys(o) ==
    MistypedKeys(o)
    \cup {k \in {"os_type"} : Outside(o, k, OsTypeChoices)}
    \cup {k \in {"protocol"} : Outside(o, k, ProtocolChoices)}

Range(q) == {q[i] : i \in DOMAIN q}

-----------------------------------------------------------------------------
(* Properties *)

\* C1: deserialize fails with ValidationError whenever the wire object carries
\* an os_type outside the eight valid choices or a protocol outside the three
\* valid choices (exact, case-sensitive match); no record is produced.
DeserializeRejectsBadEnum ==
    (Called("deserialize") /\ BadEnum(arg)) => kind = "ValidationError"

\* C2: serialize fails with ValidationError whenever the record holds an
\* os_type or a protocol outside its valid choices; no wire object is produced.
SerializeRejectsBadEnum ==
    (Called("serialize") /\ BadEnum(arg)) => kind = "ValidationError"

\* C3: patchable_fields and postable_fields each return exactly the four names
\* initiators, name, os_type, protocol, whatever calls came before.
FieldListsAreTheFourNames ==
    (Called("patchable_fields") \/ Called("postable_fields")) =>
        /\ kind = "names"
        /\ Len(ret) = 4
        /\ Range(ret) = {"initiators", "name", "os_type", "protocol"}

FieldListsWitness ==
    Called("patchable_fields") /\ kind = "names" /\ Len(ret) = 4

\* C4: deserializing the wire object serialize returned for a record whose
\* os_type and protocol are valid choices gives back the record: the same
\* fields present, each with the same value, initiators in the same order.
RoundTrip ==
    (Called("deserialize") /\ prev # {}) =>
        \A r \in prev : ~BadEnum(r) => (kind = "record" /\ ret = r)

RoundTripWitness ==
    /\ Called("deserialize")
    /\ prev # {}
    /\ kind = "record"
    /\ DOMAIN ret = {"initiators", "os_type", "protocol"}
    /\ ret["initiators"] = Lst(<<Str("iqn.b"), Str("iqn.a")>>)
    /\ ret["os_type"] = Str("linux")
    /\ ret["protocol"] = Str("iscsi")

\* C5: deserializing a wire object that has keys other than the four field
\* names succeeds when its recognized keys are well-typed: each recognized key
\* populates its field and the other keys do not appear on the record.
UnknownKeysDropped ==
    (Called("deserialize") /\ DOMAIN arg \ FieldNames # {} /\ MistypedKeys(arg) = {}) =>
        /\ kind = "record"
        /\ DOMAIN ret = DOMAIN arg \cap FieldNames
        /\ \A k \in DOMAIN ret : ret[k] = arg[k]

UnknownKeysWitness ==
    /\ Called("deserialize")
    /\ DOMAIN arg = {"unexpected_field", "name"}
    /\ kind = "record"
    /\ DOMAIN ret = {"name"}
    /\ ret["name"] = Str("grp1")

\* C6: the wire object serialize returns has an entry for exactly the fields
\* present on the record, so the empty record gives the empty object; and
\* deserializing the empty object gives a record with every field absent.
OnlyPresentFieldsEmitted ==
    /\ (Called("serialize") /\ kind = "wire") => DOMAIN ret = DOMAIN arg
    /\ (Called("serialize") /\ arg = EmptyObj) => (kind = "wire" /\ ret = EmptyObj)
    /\ (Called("deserialize") /\ arg = EmptyObj) => (kind = "record" /\ ret = EmptyObj)

OnlyPresentFieldsWitness ==
    /\ Called("serialize")
    /\ DOMAIN arg = {"name", "protocol"}
    /\ kind = "wire"
    /\ DOMAIN ret = {"name", "protocol"}

\* C7: deserialize fails with ValidationError when a wire value is not of its
\* field's declared type (initiators not a sequence, or with a non-string
\* element; a non-string name, os_type or protocol), and the error names every
\* such key; an empty initiators sequence is never an offending key and is
\* accepted when the other keys are valid.
TypeMismatchRejected ==
    Called("deserialize") =>
        /\ MistypedKeys(arg) # {} =>
              (kind = "ValidationError" /\ MistypedKeys(arg) \subseteq ret)
        /\ ("initiators" \in DOMAIN arg /\ arg["initiators"] = Lst(<<>>)) =>
              /\ kind = "ValidationError" => "initiators" \notin ret
              /\ InvalidKeys(arg) = {} =>
                    (kind = "record" /\ ret["initiators"] = Lst(<<>>))

TypeMismatchWitness ==
    /\ Called("deserialize")
    /\ "initiators" \in DOMAIN arg
    /\ arg["initiators"] = Str("iqn.a")
    /\ kind = "ValidationError"
    /\ ret = {"initiators"}

\* C8: serialize and deserialize are all-or-nothing: an input with at least
\* one invalid field (mistyped, or outside its valid choices) together with
\* valid ones fails as a whole, and nothing holding the valid fields is returned.
AllOrNothing ==
    ((Called("serialize") \/ Called("deserialize"))
        /\ InvalidKeys(arg) # {}
        /\ (DOMAIN arg \cap FieldNames) \ InvalidKeys(arg) # {}) =>
            kind = "ValidationError"

\* C10: the two field-name lists agree with the schema: each name they return
\* is a declared field whose wire key is that name, each declared field occurs
\* exactly once in the list returned, and the two lists are equal in order.
FieldListsMatchSchema ==
    (Called("patchable_fields") \/ Called("postable_fields")) =>
        /\ \A i \in DOMAIN ret :
              ret[i] \in DOMAIN declared_fields /\ declared_fields[ret[i]].data_key = ret[i]
        /\ \A f \in DOMAIN declared_fields :
              Cardinality({i \in DOMAIN ret : ret[i] = f}) = 1
        /\ patchable_fields = postable_fields
        /\ ret = patchable_fields

FieldListsMatchWitness ==
    /\ Called("postable_fields")
    /\ kind = "names"
    /\ Range(ret) = DOMAIN declared_fields

====
